---- MODULE Spec2Model ----
(***************************************************************************)
(* Model of model/utils/diin/util/blocks.py: length, biLSTM,               *)
(* last_output_v0, last_output and masked_softmax.                         *)
(*                                                                         *)
(* A tensor is a record [shape |-> <<d1, ..., dn>>, flat |-> <<...>>]      *)
(* holding its entries in row-major order, which is the layout tf.reshape  *)
(* and tf.gather work on.  The TensorFlow primitives the source calls are  *)
(* operators on such records; each function of the source is an operator   *)
(* composed from them exactly as its body composes them.                   *)
(***************************************************************************)
EXTENDS Integers, Sequences, FiniteSets, Bags, TLC

VARIABLES fn, args, rets, device, variables, calls

vars == <<fn, args, rets, device, variables, calls>>

(***************************************************************************)
(* Bounds of the model.                                                    *)
(***************************************************************************)
\* Largest number of entries of the sequence tensor given to length.
MaxSize == 5
\* Largest number of entries of the output tensor given to last_output.
MaxOutput == 5
\* Largest number of entries of the scores tensor of masked_softmax.
MaxScores == 3
\* Number of biLSTM calls made on one graph.
MaxCalls == 3

\* Entries of input tensors: zero (padding), a negative and a positive value
\* of magnitude other than 1.
Elem == {-2, 0, 3}
\* Scores: close values and values further apart than the range of exp.
ScoreVals == {-200, 0, 1}
\* Constants added to all scores.
ShiftVals == {-7, 5}
\* Names given to biLSTM.
Names == {"premise", "hypothesis", "self_att"}

(***************************************************************************)
(* Tensors.                                                                *)
(***************************************************************************)
RECURSIVE Prod(_)
Prod(s) == IF s = <<>> THEN 1 ELSE Head(s) * Prod(Tail(s))

RECURSIVE SumSeq(_)
SumSeq(s) == IF s = <<>> THEN 0 ELSE Head(s) + SumSeq(Tail(s))

RECURSIVE MaxSeq(_)
MaxSeq(s) ==
    IF Len(s) = 1 THEN Head(s)
    ELSE LET m == MaxSeq(Tail(s)) IN IF Head(s) >= m THEN Head(s) ELSE m

Rank(t) == Len(t.shape)

\* Shapes of the given rank whose entries number at most n, every dimension >= 1.
RECURSIVE Shapes(_, _)
Shapes(rank, n) ==
    IF rank = 0 THEN {<<>>}
    ELSE UNION {{<<d>> \o s : s \in Shapes(rank - 1, n \div d)} : d \in 1..n}

\* All tensors of a shape with entries in a set.
Tensors(shape, vals) ==
    {[shape |-> shape, flat |-> f] : f \in [1..Prod(shape) -> vals]}

\* Entry at a 0-based multi-index (row-major).
RECURSIVE Ravel(_, _)
Ravel(idx, shape) ==
    IF idx = <<>> THEN 0
    ELSE Head(idx) * Prod(Tail(shape)) + Ravel(Tail(idx), Tail(shape))

RECURSIVE Unravel(_, _)
Unravel(i, shape) ==
    IF shape = <<>> THEN <<>>
    ELSE <<i \div Prod(Tail(shape))>> \o Unravel(i % Prod(Tail(shape)), Tail(shape))

At(t, idx) == t.flat[Ravel(idx, t.shape) + 1]

\* The tensor of the shape of t with the entries f (the result of an
\* elementwise op on t).
Like(t, f) == [shape |-> t.shape, flat |-> f]

\* The operands of an elementwise binary op, entry by entry, as pairs, with
\* broadcasting of the dimensions of size 1 (operands of equal rank).
BroadcastIdx(idx, shape) == [k \in 1..Len(shape) |-> IF shape[k] = 1 THEN 0 ELSE idx[k]]

Pairs(a, b) ==
    LET shape == [k \in 1..Rank(a) |-> IF a.shape[k] >= b.shape[k] THEN a.shape[k] ELSE b.shape[k]]
    IN  [shape |-> shape,
         flat  |-> [i \in 1..Prod(shape) |->
                      LET idx == Unravel(i - 1, shape)
                      IN  <<At(a, BroadcastIdx(idx, a.shape)),
                            At(b, BroadcastIdx(idx, b.shape))>>]]

\* The operands of a reduction over axis 1 (the second dimension): per entry
\* of the result, the sequence of the entries reduced into it.
Slices(t, keep_dims) ==
    LET d0   == t.shape[1]
        d1   == t.shape[2]
        rest == SubSeq(t.shape, 3, Rank(t))
        R    == Prod(rest)
    IN  [shape |-> IF keep_dims THEN <<d0, 1>> \o rest ELSE <<d0>> \o rest,
         flat  |-> [o \in 1..(d0 * R) |->
                      [i1 \in 1..d1 |->
                         t.flat[(((o - 1) \div R) * d1 + (i1 - 1)) * R + ((o - 1) % R) + 1]]]]

(***************************************************************************)
(* TensorFlow primitives on integer-valued entries.                        *)
(***************************************************************************)
abs(x) == IF x < 0 THEN -x ELSE x

sign(x) == IF x > 0 THEN 1 ELSE IF x < 0 THEN -1 ELSE 0

\* tf.cast(_, tf.int32) of an integral value inside the int32 range (every
\* integer the model checker represents is): the value itself.  The cast is
\* applied to a sum of at most max_length entries of sign(...), each -1, 0 or 1.
cast_int32(x) == x

\* tf.cast(_, tf.float32) of an integral value: exact up to 2^24, and above
\* that rounded to the 24 leading bits (here: to a multiple of 2, exact up to 2^25).
cast_float32(x) ==
    IF abs(x) <= 16777216 THEN x ELSE sign(x) * (((abs(x) + 1) \div 2) * 2)

\* tf.reduce_sum(t, axis=1)
reduce_sum(t) ==
    LET s == Slices(t, FALSE) IN Like(s, [o \in DOMAIN s.flat |-> SumSeq(s.flat[o])])

expand_dims(t) == [shape |-> t.shape \o <<1>>, flat |-> t.flat]

(***************************************************************************)
(* length(sequence)                                                        *)
(***************************************************************************)
populated_nosign(sequence) ==
    Like(sequence, [i \in DOMAIN sequence.flat |-> abs(sequence.flat[i])])

populated(sequence) ==
    Like(sequence, [i \in DOMAIN sequence.flat |-> sign(abs(sequence.flat[i]))])

length(sequence) ==
    LET sum      == reduce_sum(populated(sequence))
        expanded == expand_dims(populated(sequence))
    IN  [length |-> Like(sum, [i \in DOMAIN sum.flat |-> cast_int32(sum.flat[i])]),
         mask   |-> Like(expanded, [i \in DOMAIN expanded.flat |-> cast_float32(expanded.flat[i])])]

(***************************************************************************)
(* last_output_v0(output, true_length)                                     *)
(***************************************************************************)
\* tf.one_hot(indices, depth, on_value=1., off_value=0.): a row of depth
\* entries per index, all off when the index is outside 0 .. depth-1.
one_hot(indices, depth) ==
    [shape |-> indices.shape \o <<depth>>,
     flat  |-> [i \in 1..(Len(indices.flat) * depth) |->
                  IF indices.flat[((i - 1) \div depth) + 1] = (i - 1) % depth THEN 1 ELSE 0]]

\* tf.multiply(x, y), broadcasting.
multiply(x, y) ==
    LET p == Pairs(x, y) IN Like(p, [i \in DOMAIN p.flat |-> p.flat[i][1] * p.flat[i][2]])

length_mask_at_length(output, true_length) ==
    expand_dims(one_hot(true_length, output.shape[2]))

length_mask(output, true_length) ==
    LET max_length == output.shape[2]
        last       == Like(true_length, [b \in DOMAIN true_length.flat |-> true_length.flat[b] - 1])
    IN  expand_dims(one_hot(last, max_length))

last_output_v0(output, true_length) ==
    reduce_sum(multiply(output, length_mask(output, true_length)))

(***************************************************************************)
(* last_output(output, sequence_length)                                    *)
(***************************************************************************)
\* tf.range(0, limit)
range(limit) == [shape |-> <<limit>>, flat |-> [i \in 1..limit |-> i - 1]]

\* tf.reshape(tensor, [-1, out_size])
reshape(tensor, out_size) ==
    [shape |-> <<Prod(tensor.shape) \div out_size, out_size>>, flat |-> tensor.flat]

\* tf.gather(params, indices) on a matrix: the rows named by indices.  An
\* index outside 0 .. rows-1 (negative ones included) is an error of the op
\* on a CPU kernel, and yields a row of zeros on a GPU kernel.
InRange(params, i) == 0 <= i /\ i < params.shape[1]

gather(params, indices, dev) ==
    LET cols == params.shape[2]
    IN  IF dev = "CPU" /\ \E k \in 1..Len(indices.flat) : ~InRange(params, indices.flat[k])
        THEN [status |-> "InvalidArgumentError",
              value  |-> [shape |-> <<0, cols>>, flat |-> <<>>]]
        ELSE [status |-> "ok",
              value  |-> [shape |-> <<Len(indices.flat), cols>>,
                          flat  |-> [i \in 1..(Len(indices.flat) * cols) |->
                                       LET row == indices.flat[((i - 1) \div cols) + 1]
                                       IN  IF InRange(params, row)
                                           THEN params.flat[row * cols + ((i - 1) % cols) + 1]
                                           ELSE 0]]]

index_at_length(output, sequence_length) ==
    LET batch_size == output.shape[1]
        max_length == output.shape[Rank(output) - 1]
        r          == range(batch_size)
    IN  Like(r, [b \in DOMAIN r.flat |-> r.flat[b] * max_length + sequence_length.flat[b]])

index_in_batch(output, sequence_length) ==
    LET batch_size == output.shape[1]
        r          == range(batch_size)
    IN  Like(r, [b \in DOMAIN r.flat |-> r.flat[b] * batch_size + (sequence_length.flat[b] - 1)])

index(output, sequence_length) ==
    LET batch_size == output.shape[1]
        max_length == output.shape[Rank(output) - 1]
        r          == range(batch_size)
    IN  Like(r, [b \in DOMAIN r.flat |-> r.flat[b] * max_length + (sequence_length.flat[b] - 1)])

last_output(output, sequence_length, dev) ==
    LET out_size == output.shape[Rank(output)]
        flat     == reshape(output, out_size)
    IN  gather(flat, index(output, sequence_length), dev)

(***************************************************************************)
(* masked_softmax(scores, mask)                                            *)
(*                                                                         *)
(* Scores are integral float32 values.  A float32 produced by the function *)
(* is [kind, num, den]: "nan", "inf", or the finite value num/den where    *)
(* num and den are bags of exponents, a bag B standing for the sum of e^d  *)
(* over its elements d.  As e is transcendental two such sums are equal    *)
(* exactly when the bags are, so equality is decided up to the rounding of *)
(* the float operations, which the model leaves out.                       *)
(***************************************************************************)
\* float32 exp: exp(x) is 0 for x <= -(ExpLo + 1) and inf for x >= ExpHi + 1.
ExpLo == 103
ExpHi == 88

One  == SetToBag({0})
Fin(b) == [kind |-> "fin", num |-> b, den |-> One]
Zero == Fin(EmptyBag)
Inf  == [kind |-> "inf", num |-> EmptyBag, den |-> One]
NaN  == [kind |-> "nan", num |-> EmptyBag, den |-> One]

IsZero(x) == x.kind = "fin" /\ x.num = EmptyBag

exp(x) ==
    IF x < -ExpLo THEN Zero
    ELSE IF x > ExpHi THEN Inf
    ELSE Fin(SetToBag({x}))

\* tf.subtract(x, y), broadcasting.
subtract(x, y) ==
    LET p == Pairs(x, y) IN Like(p, [i \in DOMAIN p.flat |-> p.flat[i][1] - p.flat[i][2]])

\* float * m for a mask entry m in {0, 1}.
mul_mask(x, m) ==
    IF x.kind = "nan" THEN NaN
    ELSE IF m = 0 THEN (IF x.kind = "inf" THEN NaN ELSE Zero)
    ELSE x

RECURSIVE BagSum(_)
BagSum(s) == IF s = <<>> THEN EmptyBag ELSE Head(s).num (+) BagSum(Tail(s))

\* Sum of a sequence of non-negative floats.
float_sum(s) ==
    IF \E i \in 1..Len(s) : s[i].kind = "nan" THEN NaN
    ELSE IF \E i \in 1..Len(s) : s[i].kind = "inf" THEN Inf
    ELSE Fin(BagSum(s))

\* tf.div(x, y) of non-negative floats that are sums of exponentials.
div(x, y) ==
    IF x.kind = "nan" \/ y.kind = "nan" THEN NaN
    ELSE IF x.kind = "inf" THEN (IF y.kind = "inf" THEN NaN ELSE Inf)
    ELSE IF y.kind = "inf" THEN Zero
    ELSE IF IsZero(y) THEN (IF IsZero(x) THEN NaN ELSE Inf)
    ELSE IF IsZero(x) THEN Zero
    ELSE [kind |-> "fin", num |-> x.num, den |-> y.num]

\* tf.reduce_max(t, 1, keep_dims=True)
reduce_max(t) ==
    LET s == Slices(t, TRUE) IN Like(s, [o \in DOMAIN s.flat |-> MaxSeq(s.flat[o])])

numerator_nomax(scores, mask) ==
    LET p == Pairs(scores, mask)
    IN  Like(p, [i \in DOMAIN p.flat |-> mul_mask(exp(p.flat[i][1]), p.flat[i][2])])

numerator(scores, mask) ==
    LET p == Pairs(subtract(scores, reduce_max(scores)), mask)
    IN  Like(p, [i \in DOMAIN p.flat |-> mul_mask(exp(p.flat[i][1]), p.flat[i][2])])

denominator(scores, mask) ==
    LET s == Slices(numerator(scores, mask), TRUE)
    IN  Like(s, [o \in DOMAIN s.flat |-> float_sum(s.flat[o])])

masked_softmax(scores, mask) ==
    LET p == Pairs(numerator(scores, mask), denominator(scores, mask))
    IN  Like(p, [i \in DOMAIN p.flat |-> div(p.flat[i][1], p.flat[i][2])])

(***************************************************************************)
(* biLSTM(inputs, dim, seq_len, name): the parameters it registers.        *)
(*                                                                         *)
(* tf.name_scope never fails (op names are made unique) and the            *)
(* variable_scope blocks of lines 36-39 only construct the cells, which    *)
(* create their variables when first called, inside                        *)
(* bidirectional_dynamic_rnn under the variable scope scope=name.  A       *)
(* variable name is the path <<scope, direction, cell, variable>>.         *)
(***************************************************************************)
rnn_scope_default(name) == "bidirectional_rnn"

rnn_scope(name) == name

rnn_variables(scope) ==
    << <<scope, "fw", "lstm_cell", "kernel">>, <<scope, "fw", "lstm_cell", "bias">>,
       <<scope, "bw", "lstm_cell", "kernel">>, <<scope, "bw", "lstm_cell", "bias">> >>

\* tf.get_variable for each name in turn with reuse unset: a name already in
\* the store raises ValueError and ends the call, the others are created.
RECURSIVE get_variables(_, _, _)
get_variables(store, names, created) ==
    IF names = <<>> THEN [raised |-> FALSE, store |-> store, created |-> created]
    ELSE IF Head(names) \in store
         THEN [raised |-> TRUE, store |-> store, created |-> created]
         ELSE get_variables(store \cup {Head(names)}, Tail(names), created \cup {Head(names)})

biLSTM(store, name) == get_variables(store, rnn_variables(rnn_scope(name)), {})

(***************************************************************************)
(* The state machine: a function under test with its arguments, and the    *)
(* results of the calls made so far.  For biLSTM the state is the graph's  *)
(* variable store and the log of the calls.                                *)
(***************************************************************************)
\* A vector of per-example lengths 0 .. max_length.
Lengths(batch_size, max_length) == Tensors(<<batch_size>>, 0..max_length)

NoArgs == [none |-> TRUE]

InitLength ==
    /\ fn = "length"
    /\ \E shape \in Shapes(2, MaxSize) \cup Shapes(3, MaxSize) :
         \E sequence \in Tensors(shape, Elem) : args = [sequence |-> sequence]
    /\ device = "CPU"

InitLastOutput ==
    /\ fn = "last_output"
    /\ \E shape \in Shapes(3, MaxOutput) :
         \E output \in Tensors(shape, {0, 3}) :
           \E sequence_length \in Lengths(shape[1], shape[2]) :
             args = [output |-> output, sequence_length |-> sequence_length]
    /\ device \in {"CPU", "GPU"}

InitMaskedSoftmax ==
    /\ fn = "masked_softmax"
    /\ \E shape \in Shapes(2, MaxScores) :
         \E scores \in Tensors(shape, ScoreVals) :
           \E mask \in Tensors(shape, {0, 1}) :
             \E c \in ShiftVals :
               args = [scores |-> scores, mask |-> mask, c |-> c]
    /\ device = "CPU"

InitBiLSTM ==
    /\ fn = "biLSTM"
    /\ args = NoArgs
    /\ device = "CPU"

Init ==
    /\ InitLength \/ InitLastOutput \/ InitMaskedSoftmax \/ InitBiLSTM
    /\ rets = <<>>
    /\ variables = {}
    /\ calls = <<>>

Called(op) == op \in DOMAIN rets

Return(op, value) ==
    /\ ~Called(op)
    /\ rets' = (op :> value) @@ rets
    /\ UNCHANGED <<fn, args, device, variables, calls>>

Length ==
    /\ fn = "length"
    /\ Return("length", length(args.sequence))

LastOutputV0 ==
    /\ fn = "last_output"
    /\ Return("last_output_v0", last_output_v0(args.output, args.sequence_length))

LastOutput ==
    /\ fn = "last_output"
    /\ Return("last_output", last_output(args.output, args.sequence_length, device))

MaskedSoftmax ==
    /\ fn = "masked_softmax"
    /\ Return("masked_softmax", masked_softmax(args.scores, args.mask))

\* The same function on the scores with the constant c added to each.
MaskedSoftmaxShifted ==
    /\ fn = "masked_softmax"
    /\ LET shifted == Like(args.scores,
                           [i \in DOMAIN args.scores.flat |-> args.scores.flat[i] + args.c])
       IN  Return("shifted", masked_softmax(shifted, args.mask))

BiLSTM ==
    /\ fn = "biLSTM"
    /\ Len(calls) < MaxCalls
    /\ \E name \in Names :
         LET r == biLSTM(variables, name)
         IN  /\ variables' = r.store
             /\ calls' = Append(calls, [name |-> name, raised |-> r.raised,
                                        created |-> r.created])
    /\ UNCHANGED <<fn, args, rets, device>>

Next ==
    \/ Length
    \/ LastOutputV0
    \/ LastOutput
    \/ MaskedSoftmax
    \/ MaskedSoftmaxShifted
    \/ BiLSTM

Spec == Init /\ [][Next]_vars

(***************************************************************************)
(* Properties of length.                                                   *)
(***************************************************************************)
\* Entry (b, t, r) of a tensor of shape (batch, max_length, ...), r running
\* over the trailing dimensions; all 0-based.
Inner(t) == Prod(SubSeq(t.shape, 3, Rank(t)))
Entry(t, b, i, r) == t.flat[(b * t.shape[2] + i) * Inner(t) + r + 1]
Batch(t) == 0..(t.shape[1] - 1)
Steps(t) == 0..(t.shape[2] - 1)
Trail(t) == 0..(Inner(t) - 1)

\* Example b has true length L: non-zero entries before L, zeros from L on.
PaddedTo(sequence, b, L) ==
    \A i \in Steps(sequence), r \in Trail(sequence) :
        (Entry(sequence, b, i, r) # 0) <=> (i < L)

LengthCalled == fn = "length" /\ Called("length")

NonZeroStep(sequence, b, i) == \E r \in Trail(sequence) : Entry(sequence, b, i, r) # 0

\* C2: for a 3-D input (batch, max_length, feature_dim) length() returns one
\* integer per batch element, the number of timesteps whose feature vector is
\* not all-zero, and a mask of shape (batch, max_length, 1) marking them.
C2_PerTimestepLength ==
    (LengthCalled /\ Rank(args.sequence) = 3) =>
        LET sequence == args.sequence
            ret      == rets["length"]
        IN  /\ ret.length.shape = <<sequence.shape[1]>>
            /\ ret.mask.shape = <<sequence.shape[1], sequence.shape[2], 1>>
            /\ \A b \in Batch(sequence) :
                   ret.length.flat[b + 1] =
                       Cardinality({i \in Steps(sequence) : NonZeroStep(sequence, b, i)})
            /\ \A b \in Batch(sequence), i \in Steps(sequence) :
                   ret.mask.flat[b * sequence.shape[2] + i + 1] =
                       (IF NonZeroStep(sequence, b, i) THEN 1 ELSE 0)

(***************************************************************************)
(* Properties of last_output and last_output_v0.                           *)
(***************************************************************************)
LastCalled == fn = "last_output" /\ Called("last_output")
V0Called == fn = "last_output" /\ Called("last_output_v0")

LengthOf(b) == args.sequence_length.flat[b + 1]
IndexOf(b) == index(args.output, args.sequence_length).flat[b + 1]
MaxLength == args.output.shape[2]
OutSize == args.output.shape[3]
\* The rows of the flattened tensor that belong to example b.
Block(b) == (b * MaxLength)..((b + 1) * MaxLength - 1)
FlatRows == 0..(args.output.shape[1] * MaxLength - 1)
\* Row b of a (batch, feature_dim) result and row i of example b of output.
ResultRow(value, b) == [f \in 1..OutSize |-> value.flat[b * OutSize + f]]
OutputRow(b, i) == [f \in 1..OutSize |-> Entry(args.output, b, i, f - 1)]
ZeroRow == [f \in 1..OutSize |-> 0]

AllLengthsValid == \A b \in Batch(args.output) : LengthOf(b) >= 1

C8_ZeroLengthOutOfRange ==
    LastCalled =>
        \A b \in Batch(args.output) : LengthOf(b) = 0 => IndexOf(b) \notin FlatRows

\* C8 amended: for every example b of length 0 the flat index is
\* b*max_length - 1, outside example b's own block; it is outside the
\* flattened tensor only for b = 0, and for b >= 1 it names the last row of
\* example b-1, which the gather returns when it succeeds.
C8_ZeroLengthOutOfBlock ==
    LastCalled =>
        \A b \in Batch(args.output) :
            LengthOf(b) = 0 =>
                /\ IndexOf(b) = b * MaxLength - 1
                /\ IndexOf(b) \notin Block(b)
                /\ (IndexOf(b) \notin FlatRows) <=> (b = 0)
                /\ (b >= 1 /\ rets["last_output"].status = "ok") =>
                       ResultRow(rets["last_output"].value, b) = OutputRow(b - 1, MaxLength - 1)
                /\ (b = 0 /\ device = "CPU") =>
                       rets["last_output"].status = "InvalidArgumentError"

\* The second of two examples has length 0 and received the last row of the
\* first, which is not a row of zeros.
C8_Witness ==
    /\ LastCalled
    /\ args.output.shape = <<2, 2, 1>>
    /\ args.output.flat = <<0, 3, 0, 0>>
    /\ args.sequence_length.flat = <<1, 0>>
    /\ rets["last_output"].status = "ok"
    /\ rets["last_output"].value.flat = <<0, 3>>

SoftmaxCalled == fn = "masked_softmax" /\ Called("masked_softmax")
ShiftedCalled == fn = "masked_softmax" /\ Called("shifted")

\* Positions of example b (0-based) in the flat (batch, max_length) tensors.
Positions(b) == {b * args.scores.shape[2] + i + 1 : i \in Steps(args.scores)}
Valid(b) == {p \in Positions(b) : args.mask.flat[p] = 1}
Masked(b) == {p \in Positions(b) : args.mask.flat[p] = 0}
Weights == rets["masked_softmax"]
Denominator(b) == denominator(args.scores, args.mask).flat[b + 1]

\* The sum of the weights of example b over its valid positions is 1: none
\* is NaN or inf, and their numerators add up to the common denominator.
RECURSIVE NumSum(_)
NumSum(ps) ==
    IF ps = {} THEN EmptyBag
    ELSE LET p == CHOOSE q \in ps : TRUE
         IN  Weights.flat[p].num (+) NumSum(ps \ {p})

SumsToOne(b) ==
    /\ \A p \in Valid(b) : Weights.flat[p].kind = "fin"
    /\ ~IsZero(Denominator(b))
    /\ NumSum(Valid(b)) = Denominator(b).num
    /\ \A p \in Valid(b) : ~IsZero(Weights.flat[p]) => Weights.flat[p].den = Denominator(b).num

\* C4, for the examples the spec does not set aside (those with at least one
\* valid position): the output of masked_softmax is exactly 0 at every
\* position where the mask is 0.
C4_ZeroAtMasked ==
    SoftmaxCalled =>
        \A b \in Batch(args.scores) :
            Valid(b) # {} => \A p \in Masked(b) : IsZero(Weights.flat[p])

\* C5, for the examples with at least one valid position: the weights sum to
\* 1 over the positions where the mask is 1.
C5_SumsToOne ==
    SoftmaxCalled =>
        \A b \in Batch(args.scores) : Valid(b) # {} => SumsToOne(b)

C9_DenominatorZeroIffAllMasked ==
    SoftmaxCalled =>
        \A b \in Batch(args.scores) :
            /\ Valid(b) = {} =>
                   /\ IsZero(Denominator(b))
                   /\ \A p \in Positions(b) : Weights.flat[p].kind = "nan"
            /\ Valid(b) # {} => ~IsZero(Denominator(b))

(***************************************************************************)
(* Properties of biLSTM.                                                   *)
(***************************************************************************)
Earlier(i) == {j \in 1..(i - 1) : calls[j].name = calls[i].name}

====
